---------------------------- MODULE Spec2Model ----------------------------
(***************************************************************************)
(* The useAgeRange hook of react-native-store-age-declaration as a state   *)
(* machine: the eleven useState cells of one hook instance, the fetches    *)
(* that fetchAgeRange has issued and the vendor promises they await.       *)
(*                                                                         *)
(* One action is one synchronous run of JavaScript: the part of            *)
(* fetchAgeRange before its await, or the continuation after the vendor    *)
(* promise settles (try body, catch, finally).  The setState calls of one  *)
(* run are applied together.                                               *)
(***************************************************************************)
EXTENDS Integers, Sequences, FiniteSets, TLC

\* How many times fetchAgeRange is invoked on the instance in one behaviour.
MaxFetches == 2

VARIABLES
  PlatformOS,              \* Platform.OS, read by every fetchAgeRange call
  autoFetch,               \* options.autoFetch
  onSuccess,               \* options.onSuccess: "absent", "returns" or "throws"
  onError,                 \* options.onError:   "absent", "returns" or "throws"
  mounted,                 \* the useEffect of the first render has run
  loading, error, errorCode, status, ageLower, ageUpper,
  mostRecentApprovalDate, parentControls, declaration, installId,
  rawResponse,             \* the useState cells
  fetches,                 \* the fetchAgeRange invocations, in call order
  helperCall,              \* the last call of an exported helper function
  nativeCall,              \* one call of a native module method
  cachedStatus,            \* AgeGateService.cachedStatus
  cacheTimestamp,          \* AgeGateService.cacheTimestamp
  now,                     \* Date.now()
  gateCalls,               \* the getAgeStatus invocations, in call order
  storedBy                 \* the getAgeStatus call whose result the cache holds

hookVars == <<loading, error, errorCode, status, ageLower, ageUpper,
              mostRecentApprovalDate, parentControls, declaration, installId,
              rawResponse>>
optionVars == <<autoFetch, onSuccess, onError>>
gateVars == <<cachedStatus, cacheTimestamp, now, gateCalls, storedBy>>
\* What the hook leaves alone: the helper functions, the native module and
\* the AgeGateService are separate objects.
otherVars == <<helperCall, nativeCall, gateVars>>
vars == <<PlatformOS, optionVars, mounted, hookVars, fetches, otherVars>>

---------------------------------------------------------------------------
(* JavaScript values.  Each kind has its own record shape, so that null,   *)
(* the string "null" and the number 0 are three different values.          *)

Null == [t |-> "null"]
Str(s) == [t |-> "string", s |-> s]
Num(n) == [t |-> "number", n |-> n]
ErrorObj(m) == [t |-> "Error", message |-> m]

\* ToBoolean, as used by `if (result.error)`.
Truthy(v) ==
  CASE v.t = "null" -> FALSE
    [] v.t = "string" -> v.s # ""
    [] v.t = "number" -> v.n # 0
    [] OTHER -> TRUE

Digit(d) ==
  CASE d = 0 -> "0" [] d = 1 -> "1" [] d = 2 -> "2" [] d = 3 -> "3"
    [] d = 4 -> "4" [] d = 5 -> "5" [] d = 6 -> "6" [] d = 7 -> "7"
    [] d = 8 -> "8" [] d = 9 -> "9"

RECURSIVE NatToString(_)
NatToString(n) ==
  IF n < 10 THEN Digit(n) ELSE NatToString(n \div 10) \o Digit(n % 10)

\* String(v) of a value that is not an Error instance.
JsString(v) ==
  CASE v.t = "null" -> "null"
    [] v.t = "string" -> v.s
    [] v.t = "number" -> IF v.n < 0 THEN "-" \o NatToString(-v.n)
                                    ELSE NatToString(v.n)
    [] OTHER -> "[object Object]"

\* The TypeError of reading a property of null.
TypeErrorOf(prop) ==
  ErrorObj("Cannot read properties of null (reading '" \o prop \o "')")

---------------------------------------------------------------------------
(* Vendor results.                                                         *)

PlayAgeRangeStatusResult(id, us, lo, up, date, err, code) ==
  [t |-> "object", installId |-> id, userStatus |-> us, ageLower |-> lo,
   ageUpper |-> up, mostRecentApprovalDate |-> date, error |-> err,
   errorCode |-> code]

DeclaredAgeRangeResult(st, pc, lo, up, decl) ==
  [t |-> "object", status |-> st, parentControls |-> pc, lowerBound |-> lo,
   upperBound |-> up, declaration |-> decl]

\* What getAndroidPlayAgeRangeStatus() can resolve with.
AndroidResults ==
  { PlayAgeRangeStatusResult(Null, Str("VERIFIED"), Null, Null, Null, Null, Null),
    PlayAgeRangeStatusResult(Str("abc"), Str("SUPERVISED"), Num(13), Num(15),
                             Str("2026-01-01"), Null, Null),
    PlayAgeRangeStatusResult(Null, Str(""), Null, Null, Null, Null, Null),
    PlayAgeRangeStatusResult(Null, Null, Null, Null, Null,
                             Str("NETWORK_ERROR"), Num(-3)),
    PlayAgeRangeStatusResult(Null, Null, Null, Null, Null,
                             Str("AGE_SIGNALS_INIT_ERROR: x"), Null),
    PlayAgeRangeStatusResult(Null, Null, Null, Null, Null, Str(""), Num(-8)),
    Null }

\* What requestIOSDeclaredAgeRange() can resolve with.
IOSResults ==
  { DeclaredAgeRangeResult(Str("sharing"), Null, Num(13), Num(17),
                           Str("user_declared")),
    DeclaredAgeRangeResult(Str("sharing"), Str("restricted"), Num(18), Null,
                           Str("parent_guardian_declared")),
    DeclaredAgeRangeResult(Str("declined"), Null, Null, Null, Null),
    Null }

\* What a vendor promise can reject with.
Rejections == { ErrorObj("User cancelled"), Num(-7), Null }

NoOutcome == [kind |-> "none"]
Resolved(v) == [kind |-> "resolve", value |-> v]
Rejected(v) == [kind |-> "reject", reason |-> v]

---------------------------------------------------------------------------
(* The hook's state as one record, and the blocks of fetchAgeRange as      *)
(* functions from the state before a block to the state after it.          *)

Hook ==
  [loading |-> loading, error |-> error, errorCode |-> errorCode,
   status |-> status, ageLower |-> ageLower, ageUpper |-> ageUpper,
   mostRecentApprovalDate |-> mostRecentApprovalDate,
   parentControls |-> parentControls, declaration |-> declaration,
   installId |-> installId, rawResponse |-> rawResponse]

\* useState initial values.
InitialHook ==
  [loading |-> FALSE, error |-> Null, errorCode |-> Null, status |-> Null,
   ageLower |-> Null, ageUpper |-> Null, mostRecentApprovalDate |-> Null,
   parentControls |-> Null, declaration |-> Null, installId |-> Null,
   rawResponse |-> Null]

SetHook(h) ==
  /\ loading' = h.loading
  /\ error' = h.error
  /\ errorCode' = h.errorCode
  /\ status' = h.status
  /\ ageLower' = h.ageLower
  /\ ageUpper' = h.ageUpper
  /\ mostRecentApprovalDate' = h.mostRecentApprovalDate
  /\ parentControls' = h.parentControls
  /\ declaration' = h.declaration
  /\ installId' = h.installId
  /\ rawResponse' = h.rawResponse

\* A block that ran: the state it left, what it threw (NoThrow when it ran
\* to its end) and the arguments of the callbacks it invoked, in order.
NoThrow == [t |-> "nothing"]
Ran(h, thrown, succArgs, errArgs) ==
  [h |-> h, thrown |-> thrown, onSuccessArgs |-> succArgs,
   onErrorArgs |-> errArgs]

\* What a callback throws when the application's callback throws.
CallbackError == ErrorObj("callback failed")
CallbackThrow(cb) == IF cb = "throws" THEN CallbackError ELSE NoThrow

\* The object handed to onSuccess (refresh, a function, is left out).
AndroidUnifiedResult(result) ==
  [loading |-> FALSE, error |-> Null, errorCode |-> Null,
   status |-> result.userStatus, ageLower |-> result.ageLower,
   ageUpper |-> result.ageUpper,
   mostRecentApprovalDate |-> result.mostRecentApprovalDate,
   parentControls |-> Null, declaration |-> Null,
   installId |-> result.installId, platform |-> "android",
   rawResponse |-> result]

IOSUnifiedResult(result) ==
  [loading |-> FALSE, error |-> Null, errorCode |-> Null,
   status |-> result.status, ageLower |-> result.lowerBound,
   ageUpper |-> result.upperBound, mostRecentApprovalDate |-> Null,
   parentControls |-> result.parentControls,
   declaration |-> result.declaration, installId |-> Null,
   platform |-> "ios", rawResponse |-> result]

\* The android branch after its await: setRawResponse, then `result.error`.
AndroidBranch(h, result) ==
  LET h0 == [h EXCEPT !.rawResponse = result] IN
  IF result.t # "object" THEN Ran(h0, TypeErrorOf("error"), <<>>, <<>>)
  ELSE IF Truthy(result.error) THEN
    LET h1 == [h0 EXCEPT !.error = result.error,
                         !.errorCode = result.errorCode,
                         !.status = Null, !.ageLower = Null,
                         !.ageUpper = Null,
                         !.mostRecentApprovalDate = Null,
                         !.installId = Null]
    IN IF onError # "absent"
         THEN Ran(h1, CallbackThrow(onError), <<>>, <<result.error>>)
         ELSE Ran(h1, NoThrow, <<>>, <<>>)
  ELSE
    LET h1 == [h0 EXCEPT !.status = result.userStatus,
                         !.ageLower = result.ageLower,
                         !.ageUpper = result.ageUpper,
                         !.mostRecentApprovalDate =
                             result.mostRecentApprovalDate,
                         !.installId = result.installId,
                         !.parentControls = Null, !.declaration = Null]
    IN IF onSuccess # "absent"
         THEN Ran(h1, CallbackThrow(onSuccess),
                  <<AndroidUnifiedResult(result)>>, <<>>)
         ELSE Ran(h1, NoThrow, <<>>, <<>>)

\* The ios branch after its await: console.log, setRawResponse, then
\* `result.status`.
IOSBranch(h, result) ==
  LET h0 == [h EXCEPT !.rawResponse = result] IN
  IF result.t # "object" THEN Ran(h0, TypeErrorOf("status"), <<>>, <<>>)
  ELSE
    LET h1 == [h0 EXCEPT !.status = result.status,
                         !.ageLower = result.lowerBound,
                         !.ageUpper = result.upperBound,
                         !.parentControls = result.parentControls,
                         !.declaration = result.declaration,
                         !.mostRecentApprovalDate = Null,
                         !.installId = Null]
    IN IF onSuccess # "absent"
         THEN Ran(h1, CallbackThrow(onSuccess),
                  <<IOSUnifiedResult(result)>>, <<>>)
         ELSE Ran(h1, NoThrow, <<>>, <<>>)

\* CatchBlock without its handler: what was thrown stays thrown.
CatchBlock_Rethrows(r) == r

\* catch (err): entered with what the try body threw.
CatchBlock(r) ==
  LET err == r.thrown
      errorMessage == IF err.t = "Error" THEN err.message ELSE JsString(err)
      h1 == [r.h EXCEPT !.error = Str(errorMessage), !.status = Null,
                        !.ageLower = Null, !.ageUpper = Null,
                        !.mostRecentApprovalDate = Null,
                        !.parentControls = Null, !.declaration = Null,
                        !.installId = Null]
  IN IF onError # "absent"
       THEN Ran(h1, CallbackThrow(onError), r.onSuccessArgs,
                Append(r.onErrorArgs, Str(errorMessage)))
       ELSE Ran(h1, NoThrow, r.onSuccessArgs, r.onErrorArgs)

\* finally: setLoading(false); what is still thrown after it rejects the
\* promise fetchAgeRange returned.
FinallyBlock(r) == [r EXCEPT !.h.loading = FALSE]

\* try { ... } catch { ... } finally { ... } around a try body that ran.
TryCatchFinally(r) ==
  FinallyBlock(IF r.thrown # NoThrow THEN CatchBlock(r) ELSE r)

\* The try body after the await, for the platform the call was made on and
\* the way the vendor promise settled.
TryBody(h, platform, outcome) ==
  IF outcome.kind = "reject" THEN Ran(h, outcome.reason, <<>>, <<>>)
  ELSE IF platform = "android" THEN AndroidBranch(h, outcome.value)
  ELSE IOSBranch(h, outcome.value)

\* Everything fetchAgeRange does once its vendor promise has settled.
Continuation(h, platform, outcome) ==
  TryCatchFinally(TryBody(h, platform, outcome))

PromiseOf(r) == IF r.thrown = NoThrow THEN "fulfilled" ELSE "rejected"

---------------------------------------------------------------------------
(* The state machine.                                                      *)

Platforms == {"android", "ios", "web"}
Callbacks == {"absent", "returns", "throws"}

\* One fetchAgeRange invocation: the platform it read, whether its vendor
\* call is outstanding, how the vendor promise settled, the promise it
\* returned to its caller and the callbacks it invoked.
FetchRecord(platform, phase, outcome, promise, succArgs, errArgs) ==
  [platform |-> platform, phase |-> phase, outcome |-> outcome,
   promise |-> promise, onSuccessArgs |-> succArgs, onErrorArgs |-> errArgs]

Pending == {i \in 1..Len(fetches) : fetches[i].phase = "pending"}

\* No call made yet (of a helper function, of a native method).
NoCall == [fn |-> "none"]

\* private readonly CACHE_DURATION = 30 * 60 * 1000, in milliseconds.
CACHE_DURATION == 30 * 60 * 1000

\* Date.now() when the AgeGateService is constructed.  Only differences of
\* times matter; the epoch is far more than CACHE_DURATION in the past.
ConstructionTime == 2 * CACHE_DURATION

\* new AgeGateService(): cachedStatus = null, cacheTimestamp = 0.
AgeGateServiceConstructed ==
  /\ cachedStatus = Null
  /\ cacheTimestamp = 0
  /\ now = ConstructionTime
  /\ gateCalls = <<>>
  /\ storedBy = 0

Init ==
  /\ PlatformOS \in Platforms
  /\ autoFetch \in BOOLEAN
  /\ onSuccess \in Callbacks
  /\ onError \in Callbacks
  /\ mounted = FALSE
  /\ loading = FALSE
  /\ error = Null
  /\ errorCode = Null
  /\ status = Null
  /\ ageLower = Null
  /\ ageUpper = Null
  /\ mostRecentApprovalDate = Null
  /\ parentControls = Null
  /\ declaration = Null
  /\ installId = Null
  /\ rawResponse = Null
  /\ fetches = <<>>
  /\ helperCall = NoCall
  /\ nativeCall = NoCall
  /\ AgeGateServiceConstructed

\* A bug the start of a fetch could have: the held status is cleared too.
BeginFetch_ClearsStatus(h) ==
  [h EXCEPT !.loading = TRUE, !.error = Null, !.errorCode = Null,
            !.status = Null]

\* setLoading(true); setError(null); setErrorCode(null)
BeginFetch(h) == [h EXCEPT !.loading = TRUE, !.error = Null, !.errorCode = Null]

\* A call of fetchAgeRange, up to its await.  On android and ios the vendor
\* call is started and the function suspends; on any other platform neither
\* branch is taken and the function runs through finally at once.
fetchAgeRange ==
  LET h0 == BeginFetch(Hook) IN
  IF PlatformOS \in {"android", "ios"}
    THEN /\ SetHook(h0)
         /\ fetches' = Append(fetches,
               FetchRecord(PlatformOS, "pending", NoOutcome, "pending",
                           <<>>, <<>>))
    ELSE LET r == TryCatchFinally(Ran(h0, NoThrow, <<>>, <<>>)) IN
         /\ SetHook(r.h)
         /\ fetches' = Append(fetches,
               FetchRecord(PlatformOS, "done", NoOutcome, PromiseOf(r),
                           r.onSuccessArgs, r.onErrorArgs))

\* A bug the effect could have: it fetches whatever autoFetch is.
Mount_IgnoresAutoFetch ==
  /\ ~mounted
  /\ mounted' = TRUE
  /\ fetchAgeRange
  /\ UNCHANGED <<PlatformOS, optionVars, otherVars>>

\* useEffect(() => { if (autoFetch) fetchAgeRange() }, [autoFetch])
Mount ==
  /\ ~mounted
  /\ mounted' = TRUE
  /\ IF autoFetch THEN fetchAgeRange ELSE UNCHANGED <<hookVars, fetches>>
  /\ UNCHANGED <<PlatformOS, optionVars, otherVars>>

\* The application calls refresh().
Refresh ==
  /\ mounted
  /\ Len(fetches) < MaxFetches
  /\ fetchAgeRange
  /\ UNCHANGED <<PlatformOS, optionVars, mounted, otherVars>>

\* The vendor promise of fetch i settles and fetchAgeRange resumes.
Settle(i, outcome) ==
  LET r == Continuation(Hook, fetches[i].platform, outcome) IN
  /\ SetHook(r.h)
  /\ fetches' = [fetches EXCEPT ![i] =
        FetchRecord(fetches[i].platform, "done", outcome, PromiseOf(r),
                    r.onSuccessArgs, r.onErrorArgs)]
  /\ UNCHANGED <<PlatformOS, optionVars, mounted, otherVars>>

VendorResolves ==
  \E i \in Pending :
    \E value \in (IF fetches[i].platform = "android" THEN AndroidResults
                                                      ELSE IOSResults) :
      Settle(i, Resolved(value))

VendorRejects ==
  \E i \in Pending : \E reason \in Rejections : Settle(i, Rejected(reason))

\* Platform.OS is a mutable property of the react-native module; a test
\* harness assigns it between fetches (while no vendor call is outstanding).
SetPlatformOS ==
  /\ Pending = {}
  /\ \E p \in Platforms \ {PlatformOS} : PlatformOS' = p
  /\ UNCHANGED <<optionVars, mounted, hookVars, fetches, otherVars>>

Next == Mount \/ Refresh \/ VendorResolves \/ VendorRejects \/ SetPlatformOS

Spec == Init /\ [][Next]_vars

---------------------------------------------------------------------------
(* Notions the properties below are stated with.                           *)

Settled == {i \in 1..Len(fetches) : fetches[i].phase = "done"}
VendorFetches == {i \in 1..Len(fetches) : fetches[i].platform \in {"android", "ios"}}
CallbacksReturn == onSuccess # "throws" /\ onError # "throws"

\* Fetch i's continuation runs in this step.
Settles(i) ==
  /\ i \in 1..Len(fetches)
  /\ fetches[i].phase = "pending"
  /\ fetches'[i].phase = "done"

\* The value fetch i's vendor promise resolved with was an object.
ResolvedObject(f) ==
  /\ f.outcome.kind = "resolve"
  /\ f.outcome.value.t = "object"

\* C1: at most one vendor call of the instance is outstanding at any time.
C1_AtMostOneOutstanding == Cardinality(Pending) <= 1

\* C4: while a vendor call of the instance is outstanding, loading is true.
C4_LoadingWhileOutstanding == Pending # {} => loading = TRUE

DataFieldsNull(h) ==
  /\ h.status = Null
  /\ h.ageLower = Null
  /\ h.ageUpper = Null
  /\ h.mostRecentApprovalDate = Null
  /\ h.parentControls = Null
  /\ h.declaration = Null
  /\ h.installId = Null

\* The hook's state after the step.
HookAfter ==
  [loading |-> loading', error |-> error', errorCode |-> errorCode',
   status |-> status', ageLower |-> ageLower', ageUpper |-> ageUpper',
   mostRecentApprovalDate |-> mostRecentApprovalDate',
   parentControls |-> parentControls', declaration |-> declaration',
   installId |-> installId', rawResponse |-> rawResponse']

\* A vendor result that carries an error message or a status, as the
\* vendor contract promises (an empty error string counts as no error).
CarriesErrorOrStatus(f) ==
  f.outcome.kind = "resolve" =>
    /\ f.outcome.value.t = "object"
    /\ IF f.platform = "android"
         THEN Truthy(f.outcome.value.error) \/ f.outcome.value.userStatus # Null
         ELSE f.outcome.value.status # Null

\* C2: on an android or ios instance, once a fetch has completed and no
\* vendor call is outstanding, exactly one of error and status is non-null,
\* and a non-null error comes with null status, ageLower and ageUpper.
C2_ErrorXorStatus ==
  ( /\ Settled # {}
    /\ Pending = {}
    /\ VendorFetches = 1..Len(fetches)
    /\ \A i \in Settled : CarriesErrorOrStatus(fetches[i]) )
  => /\ (error # Null) <=> (status = Null)
     /\ error # Null => (status = Null /\ ageLower = Null /\ ageUpper = Null)

\* What the code makes of one fetch's vendor outcome on a fresh instance.
Normalized(f) == Continuation(InitialHook, f.platform, f.outcome).h

\* C3: once every fetch has settled, the held status, age fields, error and
\* errorCode are those of the most recently issued fetch.
C3_LastIssuedWins ==
  ( /\ Len(fetches) >= 1
    /\ Pending = {}
    /\ fetches[Len(fetches)].platform \in {"android", "ios"} )
  => LET m == Normalized(fetches[Len(fetches)]) IN
     <<status, ageLower, ageUpper, error, errorCode>>
       = <<m.status, m.ageLower, m.ageUpper, m.error, m.errorCode>>

\* C5: a fetch whose vendor call rejects ends with error = the Error's
\* message (String(v) for any other value v), errorCode null, loading false
\* and every data field null.
C5_RejectionBecomesError ==
  [][\A i \in 1..Len(fetches) :
       (Settles(i) /\ fetches'[i].outcome.kind = "reject") =>
         LET v == fetches'[i].outcome.reason IN
         /\ error' = Str(IF v.t = "Error" THEN v.message ELSE JsString(v))
         /\ errorCode' = Null
         /\ loading' = FALSE
         /\ DataFieldsNull(HookAfter)]_vars

\* C6: on a platform that is neither android nor ios a fetch makes no
\* vendor call, does not throw, and ends with error = "Platform not
\* supported", loading false and every data field null.
C6_UnsupportedPlatform ==
  [][(/\ Len(fetches') = Len(fetches) + 1
      /\ fetches'[Len(fetches')].platform \notin {"android", "ios"})
     => /\ fetches'[Len(fetches')].phase = "done"
        /\ fetches'[Len(fetches')].promise = "fulfilled"
        /\ error' = Str("Platform not supported")
        /\ loading' = FALSE
        /\ DataFieldsNull(HookAfter)]_vars

\* C8: an android result whose error is non-null (any string) ends the
\* fetch with error and errorCode copied, every data field null and onError
\* called with the error string.
C8_AndroidErrorCopied ==
  [][\A i \in 1..Len(fetches) :
       ( /\ Settles(i)
         /\ CallbacksReturn
         /\ fetches[i].platform = "android"
         /\ ResolvedObject(fetches'[i])
         /\ fetches'[i].outcome.value.error # Null )
       => LET result == fetches'[i].outcome.value IN
          /\ error' = result.error
          /\ errorCode' = result.errorCode
          /\ DataFieldsNull(HookAfter)
          /\ onError # "absent" => fetches'[i].onErrorArgs = <<result.error>>]_vars

\* C9: an android result whose error is null ends the fetch with the
\* vendor fields copied verbatim, error and errorCode null, parentControls
\* and declaration null, and onSuccess handed the same values.
C9_AndroidSuccessCopied ==
  [][\A i \in 1..Len(fetches) :
       ( /\ Settles(i)
         /\ CallbacksReturn
         /\ fetches[i].platform = "android"
         /\ ResolvedObject(fetches'[i])
         /\ fetches'[i].outcome.value.error = Null )
       => LET result == fetches'[i].outcome.value IN
          /\ status' = result.userStatus
          /\ ageLower' = result.ageLower
          /\ ageUpper' = result.ageUpper
          /\ mostRecentApprovalDate' = result.mostRecentApprovalDate
          /\ installId' = result.installId
          /\ error' = Null
          /\ errorCode' = Null
          /\ parentControls' = Null
          /\ declaration' = Null
          /\ onSuccess # "absent" =>
               /\ Len(fetches'[i].onSuccessArgs) = 1
               /\ LET u == fetches'[i].onSuccessArgs[1] IN
                  /\ u.platform = "android"
                  /\ u.loading = FALSE
                  /\ u.status = result.userStatus
                  /\ u.ageLower = result.ageLower
                  /\ u.ageUpper = result.ageUpper
                  /\ u.mostRecentApprovalDate = result.mostRecentApprovalDate
                  /\ u.installId = result.installId
                  /\ u.error = Null
                  /\ u.errorCode = Null
                  /\ u.parentControls = Null
                  /\ u.declaration = Null]_vars

\* C10: every ios result ends the fetch with status, bounds, parentControls
\* and declaration copied verbatim, mostRecentApprovalDate and installId
\* null, and error and errorCode null.
C10_IOSCopied ==
  [][\A i \in 1..Len(fetches) :
       ( /\ Settles(i)
         /\ CallbacksReturn
         /\ fetches[i].platform = "ios"
         /\ ResolvedObject(fetches'[i]) )
       => LET result == fetches'[i].outcome.value IN
          /\ status' = result.status
          /\ ageLower' = result.lowerBound
          /\ ageUpper' = result.upperBound
          /\ parentControls' = result.parentControls
          /\ declaration' = result.declaration
          /\ mostRecentApprovalDate' = Null
          /\ installId' = Null
          /\ error' = Null
          /\ errorCode' = Null]_vars

---------------------------------------------------------------------------
(* The object a render of useAgeRange returns, and the exported helper     *)
(* functions that read it.                                                 *)

\* { platform: Platform.OS, status, ..., refresh } (refresh is left out).
UnifiedAgeRangeResult(p, h) ==
  [platform |-> p, status |-> h.status, ageLower |-> h.ageLower,
   ageUpper |-> h.ageUpper,
   mostRecentApprovalDate |-> h.mostRecentApprovalDate,
   parentControls |-> h.parentControls, declaration |-> h.declaration,
   installId |-> h.installId, loading |-> h.loading, error |-> h.error,
   errorCode |-> h.errorCode, rawResponse |-> h.rawResponse]

\* What the component reads in the current state.
UseAgeRangeReturn == UnifiedAgeRangeResult(PlatformOS, Hook)

\* adultAge: number = 18
DefaultAdultAge == 18

\* A bug isUserAdult could have: `>` where the code has `>=`.
isUserAdult_Strict(r, adultAge) ==
  IF r.platform = "android"
    THEN \/ r.status = Str("VERIFIED")
         \/ (r.ageLower # Null /\ r.ageLower.n > adultAge)
    ELSE r.status = Str("sharing") /\ r.ageLower # Null
         /\ r.ageLower.n > adultAge

isUserAdult(r, adultAge) ==
  IF r.platform = "android"
    THEN IF r.status = Str("VERIFIED") THEN TRUE
         ELSE IF r.ageLower # Null /\ r.ageLower.n >= adultAge THEN TRUE
         ELSE FALSE
    ELSE IF r.status = Str("sharing") /\ r.ageLower # Null
            /\ r.ageLower.n >= adultAge THEN TRUE
         ELSE FALSE

\* A bug isSupervised could have: the platform is not looked at.
isSupervised_AnyPlatform(r) ==
  \/ r.status \in {Str("SUPERVISED"), Str("SUPERVISED_APPROVAL_PENDING"),
                   Str("SUPERVISED_APPROVAL_DENIED")}
  \/ r.parentControls = Str("restricted")

isSupervised(r) ==
  IF r.platform = "android"
    THEN \/ r.status = Str("SUPERVISED")
         \/ r.status = Str("SUPERVISED_APPROVAL_PENDING")
         \/ r.status = Str("SUPERVISED_APPROVAL_DENIED")
    ELSE r.parentControls = Str("restricted")

\* A bug getAgeRangeString could have: `!result.ageLower` where the code
\* has `result.ageLower === null`.
getAgeRangeString_Falsy(r) ==
  IF ~Truthy(r.ageLower) THEN Null
  ELSE IF r.ageUpper = Null THEN Str(JsString(r.ageLower) \o "+")
  ELSE Str(JsString(r.ageLower) \o "-" \o JsString(r.ageUpper))

\* The template literals format the numbers as String(n) does.
getAgeRangeString(r) ==
  IF r.ageLower = Null THEN Null
  ELSE IF r.ageUpper = Null THEN Str(JsString(r.ageLower) \o "+")
  ELSE Str(JsString(r.ageLower) \o "-" \o JsString(r.ageUpper))

---------------------------------------------------------------------------
(* C11.  Fields not applicable to the reported platform are null: when the *)
(* last fetch has finished and ran on the platform the hook reports,       *)
(* platform 'android' comes with parentControls and declaration null, and  *)
(* platform 'ios' with mostRecentApprovalDate and installId null, whatever *)
(* platform the earlier fetches ran on.                                    *)
(* The code does not keep this: the android in-band-error branch resets    *)
(* neither parentControls nor declaration, so the values an earlier ios    *)
(* fetch stored stay beside platform = 'android'.                          *)
C11_InapplicableFieldsNull ==
  (/\ fetches # <<>>
   /\ Pending = {}
   /\ fetches[Len(fetches)].platform = PlatformOS) =>
    /\ UseAgeRangeReturn.platform = "android" =>
         parentControls = Null /\ declaration = Null
    /\ UseAgeRangeReturn.platform = "ios" =>
         mostRecentApprovalDate = Null /\ installId = Null

(* C12.  An error state is never treated as an adult: whenever error is    *)
(* non-null, isUserAdult is false, isSupervised is false and               *)
(* getAgeRangeString is null for the object the hook returns.              *)
(* The code does not keep this once fetches overlap (C1): the fetch that   *)
(* settles first leaves status or ageLower, the later one an error.        *)
C12_ErrorNeverAdult ==
  error # Null =>
    /\ ~isUserAdult(UseAgeRangeReturn, DefaultAdultAge)
    /\ ~isSupervised(UseAgeRangeReturn)
    /\ getAgeRangeString(UseAgeRangeReturn) = Null

---------------------------------------------------------------------------
(* The helper functions on their own: a behaviour of HelperSpec picks one  *)
(* UnifiedAgeRangeResult and one adultAge and then calls a helper on them. *)

\* A hook instance that is constructed and never mounted.
HookUnused ==
  /\ autoFetch = TRUE
  /\ onSuccess = "absent"
  /\ onError = "absent"
  /\ mounted = FALSE
  /\ loading = FALSE
  /\ error = Null
  /\ errorCode = Null
  /\ status = Null
  /\ ageLower = Null
  /\ ageUpper = Null
  /\ mostRecentApprovalDate = Null
  /\ parentControls = Null
  /\ declaration = Null
  /\ installId = Null
  /\ rawResponse = Null
  /\ fetches = <<>>

hookAll == <<PlatformOS, optionVars, mounted, hookVars, fetches>>

\* status: string | null - the values of AgeSignalsUserStatus and
\* IOSAgeRangeStatus, and null.
ResultStatuses ==
  { Null, Str("VERIFIED"), Str("SUPERVISED"),
    Str("SUPERVISED_APPROVAL_PENDING"), Str("SUPERVISED_APPROVAL_DENIED"),
    Str("UNKNOWN"), Str(""), Str("sharing"), Str("declined") }

\* ageLower: number | null and ageUpper: number | null.
ResultAgeLowers == { Null, Num(0), Num(13), Num(17), Num(18), Num(21) }
ResultAgeUppers == { Null, Num(0), Num(12), Num(17) }

\* parentControls: string | null.
ResultParentControls == { Null, Str("restricted"), Str("0") }

\* error: string | null.
ResultErrors == { Null, Str("NETWORK_ERROR") }

\* platform: 'android' | 'ios'.
ResultPlatforms == { "android", "ios" }

UnifiedAgeRangeResults ==
  { UnifiedAgeRangeResult(p,
      [InitialHook EXCEPT !.status = st, !.ageLower = lo, !.ageUpper = up,
                          !.parentControls = pc, !.error = err]) :
      p \in ResultPlatforms, st \in ResultStatuses, lo \in ResultAgeLowers,
      up \in ResultAgeUppers, pc \in ResultParentControls,
      err \in ResultErrors }

\* The adultAge argument; Undefined is the argument left out.
Undefined == [t |-> "undefined"]
AdultAges == { Undefined, Num(13), Num(DefaultAdultAge), Num(21) }

\* The largest age and the largest magnitude of an error code the
\* arguments of the age-signals helpers are drawn from.
MaxAge == 21
MaxErrorCode == 101

\* errorCode: number | null.
ErrorCodes == {Null} \cup { Num(n) : n \in (-MaxErrorCode)..MaxErrorCode }

\* ageLower: number | null, ageUpper: number | null.
Ages == {Null} \cup { Num(n) : n \in 0..MaxAge }

\* AgeSignalsErrorCode.
API_NOT_AVAILABLE == -1
PLAY_STORE_NOT_FOUND == -2
NETWORK_ERROR == -3
PLAY_SERVICES_NOT_FOUND == -4
CANNOT_BIND_TO_SERVICE == -5
PLAY_STORE_VERSION_OUTDATED == -6
PLAY_SERVICES_VERSION_OUTDATED == -7
CLIENT_TRANSIENT_ERROR == -8
APP_NOT_OWNED == -9
INTERNAL_ERROR == -100

\* A bug shouldRetryError could have: every known code is retried.
shouldRetryError_AllCodes(code) ==
  IF ~Truthy(code) THEN FALSE
  ELSE code.n \in
         { API_NOT_AVAILABLE, PLAY_STORE_NOT_FOUND, NETWORK_ERROR,
           PLAY_SERVICES_NOT_FOUND, CANNOT_BIND_TO_SERVICE,
           PLAY_STORE_VERSION_OUTDATED, PLAY_SERVICES_VERSION_OUTDATED,
           CLIENT_TRANSIENT_ERROR, APP_NOT_OWNED, INTERNAL_ERROR }

shouldRetryError(code) ==
  IF ~Truthy(code) THEN FALSE
  ELSE code.n \in
         { API_NOT_AVAILABLE, PLAY_STORE_NOT_FOUND, NETWORK_ERROR,
           PLAY_SERVICES_NOT_FOUND, CANNOT_BIND_TO_SERVICE,
           PLAY_STORE_VERSION_OUTDATED, PLAY_SERVICES_VERSION_OUTDATED,
           CLIENT_TRANSIENT_ERROR }

isSupervisedUser(userStatus) ==
  IF ~Truthy(userStatus) THEN FALSE
  ELSE \/ userStatus = Str("SUPERVISED")
       \/ userStatus = Str("SUPERVISED_APPROVAL_PENDING")
       \/ userStatus = Str("SUPERVISED_APPROVAL_DENIED")

isVerifiedAdult(userStatus) == userStatus = Str("VERIFIED")

\* A bug isUnknownAge could have: the empty status is forgotten.
isUnknownAge_NoEmpty(userStatus) ==
  userStatus = Str("UNKNOWN") \/ userStatus = Null

isUnknownAge(userStatus) ==
  \/ userStatus = Str("UNKNOWN")
  \/ userStatus = Str("")
  \/ userStatus = Null

meetsMinimumAge(ageLo, minimumAge) ==
  IF ageLo = Null THEN FALSE ELSE ageLo.n >= minimumAge

getAgeCategory(ageLo, ageUp) ==
  IF ageLo = Null THEN Str("unknown")
  ELSE IF ageUp = Null \/ ageUp.n >= 18 THEN Str("adult")
  ELSE IF ageUp.n >= 13 THEN Str("teen")
  ELSE Str("child")

\* A call about to be made, and a call that returned.
HelperArgs(r, adultAge) == [fn |-> "none", r |-> r, adultAge |-> adultAge]
HelperReturn(fn, returned) ==
  [fn |-> fn, r |-> helperCall.r, adultAge |-> helperCall.adultAge,
   returned |-> returned]

HelperInit ==
  /\ PlatformOS = "android"
  /\ HookUnused
  /\ nativeCall = NoCall
  /\ AgeGateServiceConstructed
  /\ \/ \E r \in UnifiedAgeRangeResults : \E a \in AdultAges :
          helperCall = HelperArgs(r, a)
     \/ \E code \in ErrorCodes :
          helperCall = [fn |-> "none", errorCode |-> code]
     \/ \E us \in ResultStatuses :
          helperCall = [fn |-> "none", userStatus |-> us]
     \/ \E lo \in Ages : \E up \in Ages :
          helperCall = [fn |-> "none", ageLower |-> lo, ageUpper |-> up]

\* The helper has not been called and the arguments include `arg`.
ToCallWith(arg) == helperCall.fn = "none" /\ arg \in DOMAIN helperCall

\* isUserAdult(result, adultAge), adultAge defaulting to 18.
CallIsUserAdult ==
  /\ ToCallWith("r")
  /\ LET a == IF helperCall.adultAge = Undefined THEN DefaultAdultAge
                                                 ELSE helperCall.adultAge.n
     IN helperCall' = HelperReturn("isUserAdult", isUserAdult(helperCall.r, a))
  /\ UNCHANGED <<hookAll, nativeCall, gateVars>>

CallIsSupervised ==
  /\ ToCallWith("r")
  /\ helperCall' = HelperReturn("isSupervised", isSupervised(helperCall.r))
  /\ UNCHANGED <<hookAll, nativeCall, gateVars>>

CallGetAgeRangeString ==
  /\ ToCallWith("r")
  /\ helperCall' = HelperReturn("getAgeRangeString",
                                getAgeRangeString(helperCall.r))
  /\ UNCHANGED <<hookAll, nativeCall, gateVars>>

CallShouldRetryError ==
  /\ ToCallWith("errorCode")
  /\ helperCall' = [fn |-> "shouldRetryError",
                    errorCode |-> helperCall.errorCode,
                    returned |-> shouldRetryError(helperCall.errorCode)]
  /\ UNCHANGED <<hookAll, nativeCall, gateVars>>

\* isVerifiedAdult, isSupervisedUser and isUnknownAge of one userStatus.
CallStatusClassifiers ==
  /\ ToCallWith("userStatus")
  /\ helperCall' = [fn |-> "classifiers",
                    userStatus |-> helperCall.userStatus,
                    isVerifiedAdult |-> isVerifiedAdult(helperCall.userStatus),
                    isSupervisedUser |-> isSupervisedUser(helperCall.userStatus),
                    isUnknownAge |-> isUnknownAge(helperCall.userStatus)]
  /\ UNCHANGED <<hookAll, nativeCall, gateVars>>

CallGetAgeCategory ==
  /\ ToCallWith("ageLower")
  /\ helperCall' = [fn |-> "getAgeCategory",
                    ageLower |-> helperCall.ageLower,
                    ageUpper |-> helperCall.ageUpper,
                    returned |-> getAgeCategory(helperCall.ageLower,
                                                helperCall.ageUpper)]
  /\ UNCHANGED <<hookAll, nativeCall, gateVars>>

HelperNext ==
  \/ CallIsUserAdult
  \/ CallIsSupervised
  \/ CallGetAgeRangeString
  \/ CallShouldRetryError
  \/ CallStatusClassifiers
  \/ CallGetAgeCategory

HelperSpec == HelperInit /\ [][HelperNext]_vars

\* The adultAge a call of isUserAdult compared with.
AdultAgeUsed ==
  IF helperCall.adultAge = Undefined THEN 18 ELSE helperCall.adultAge.n

(* C13.  isUserAdult(r, adultAge) returns true exactly when r is an        *)
(* android result with status 'VERIFIED' or with a non-null ageLower of at *)
(* least adultAge, or an ios result with status 'sharing' and a non-null   *)
(* ageLower of at least adultAge (adultAge is 18 when left out); otherwise *)
(* it returns false, and it always returns.                                *)
C13_IsUserAdult ==
  helperCall.fn = "isUserAdult" =>
    LET r == helperCall.r
        old == r.ageLower # Null /\ r.ageLower.n >= AdultAgeUsed
    IN /\ helperCall.returned \in BOOLEAN
       /\ helperCall.returned <=>
            \/ r.platform = "android" /\ (r.status = Str("VERIFIED") \/ old)
            \/ r.platform = "ios" /\ r.status = Str("sharing") /\ old

\* An ios result that shares an ageLower equal to the default adultAge.
C13_Witness ==
  /\ helperCall.fn = "isUserAdult"
  /\ helperCall.adultAge = Undefined
  /\ helperCall.r.platform = "ios"
  /\ helperCall.r.ageLower = Num(18)
  /\ helperCall.returned = TRUE

(* C14.  isSupervised(r) returns true exactly when r is an android result  *)
(* whose status is SUPERVISED, SUPERVISED_APPROVAL_PENDING or              *)
(* SUPERVISED_APPROVAL_DENIED, or an ios result whose parentControls is    *)
(* 'restricted'; changing parentControls of an android result, or status   *)
(* of an ios result, does not change the answer.                           *)
C14_IsSupervised ==
  helperCall.fn = "isSupervised" =>
    LET r == helperCall.r IN
    /\ helperCall.returned <=>
         \/ /\ r.platform = "android"
            /\ r.status \in { Str("SUPERVISED"),
                              Str("SUPERVISED_APPROVAL_PENDING"),
                              Str("SUPERVISED_APPROVAL_DENIED") }
         \/ r.platform = "ios" /\ r.parentControls = Str("restricted")
    /\ r.platform = "android" =>
         \A pc \in ResultParentControls :
           isSupervised([r EXCEPT !.parentControls = pc]) = helperCall.returned
    /\ r.platform = "ios" =>
         \A st \in ResultStatuses :
           isSupervised([r EXCEPT !.status = st]) = helperCall.returned

\* An android result with restricted parentControls that is not supervised.
C14_Witness ==
  /\ helperCall.fn = "isSupervised"
  /\ helperCall.r.platform = "android"
  /\ helperCall.r.parentControls = Str("restricted")
  /\ helperCall.r.status = Str("VERIFIED")
  /\ helperCall.returned = FALSE

\* The decimal text of the ages the inputs are drawn from.
AgeText(n) ==
  CASE n = 0 -> "0" [] n = 12 -> "12" [] n = 13 -> "13" [] n = 17 -> "17"
    [] n = 18 -> "18" [] n = 21 -> "21"

(* C15.  getAgeRangeString(r) returns null when ageLower is null, the text *)
(* '<ageLower>+' when only ageUpper is null and '<ageLower>-<ageUpper>'    *)
(* when neither is; ageLower = 0 is formatted like any other number, and   *)
(* no other field of r changes the answer.                                 *)
C15_GetAgeRangeString ==
  helperCall.fn = "getAgeRangeString" =>
    LET r == helperCall.r IN
    /\ helperCall.returned =
         IF r.ageLower = Null THEN Null
         ELSE IF r.ageUpper = Null THEN Str(AgeText(r.ageLower.n) \o "+")
         ELSE Str(AgeText(r.ageLower.n) \o "-" \o AgeText(r.ageUpper.n))
    /\ \A p \in ResultPlatforms, st \in ResultStatuses,
          pc \in ResultParentControls, err \in ResultErrors :
         getAgeRangeString([r EXCEPT !.platform = p, !.status = st,
                                     !.parentControls = pc, !.error = err])
           = helperCall.returned

\* ageLower = 0 with no upper bound is formatted as "0+".
C15_Witness ==
  /\ helperCall.fn = "getAgeRangeString"
  /\ helperCall.r.ageLower = Num(0)
  /\ helperCall.r.ageUpper = Null
  /\ helperCall.returned = Str("0+")

---------------------------------------------------------------------------
(* C16.  Before its effect has run the instance has issued no fetch and    *)
(* holds the initial state.  With autoFetch = false the effect starts no   *)
(* fetch, the first fetch is started by a refresh() call, and until then   *)
(* the state stays initial (loading false, every field null).  With        *)
(* autoFetch = true the effect starts exactly one fetch, which on android  *)
(* and ios is a vendor call.                                               *)
C16_AutoFetch ==
  /\ [](~mounted => fetches = <<>> /\ Hook = InitialHook)
  /\ [][ /\ (~mounted /\ mounted') =>
              IF autoFetch
                THEN /\ Len(fetches') = 1
                     /\ fetches'[1].platform \in {"android", "ios"} =>
                          fetches'[1].phase = "pending"
                ELSE fetches' = <<>>
         /\ (~autoFetch /\ fetches = <<>> /\ fetches' # <<>>) => mounted
         /\ (~autoFetch /\ fetches' = <<>>) => HookAfter = InitialHook
       ]_vars

\* The effect of an autoFetch instance started the one vendor call there is.
C16_Witness ==
  /\ autoFetch
  /\ mounted
  /\ Len(fetches) = 1
  /\ fetches[1].phase = "pending"
  /\ loading

---------------------------------------------------------------------------
(* The native module: one call of getAndroidPlayAgeRangeStatus (Kotlin on  *)
(* android, the Objective-C stub on ios) or of requestIOSDeclaredAgeRange  *)
(* (Swift), and every resolve / reject the call makes on its promise.      *)

\* A native call: where it stands ("task": waiting for the platform
\* service, "done": returned for good), the path it took, the platform
\* service's answer and the settlements of its promise, in order.
NativeCall(fn, pc, path, answer, settlements) ==
  [fn |-> fn, pc |-> pc, path |-> path, answer |-> answer,
   settlements |-> settlements]

NoAnswer == [t |-> "nothing"]

\* promise.reject(code, message).
RejectedWith(code, message) == Rejected([code |-> code, message |-> message])

\* "${e.message}" and `\(value)` of an optional text: null prints as "null".
Template(m) == IF m = Null THEN "null" ELSE m.s

Pad2(n) == IF n < 10 THEN "0" \o NatToString(n) ELSE NatToString(n)

\* SimpleDateFormat("yyyy-MM-dd", Locale.US).format(date)
FormatDate(d) ==
  NatToString(d.year) \o "-" \o Pad2(d.month) \o "-" \o Pad2(d.day)

\* What AgeSignalsManager.checkAgeSignals can succeed with.
AgeSignalsResults ==
  [ installId : {Null, Str(""), Str("abc")},
    userStatus : {Null, Str("VERIFIED"), Str("SUPERVISED"),
                  Str("SUPERVISED_APPROVAL_PENDING"),
                  Str("SUPERVISED_APPROVAL_DENIED"), Str("UNKNOWN")},
    ageLower : {Null, Num(0), Num(13)},
    ageUpper : {Null, Num(12), Num(17)},
    mostRecentApprovalDate :
      {Null, [year |-> 2026, month |-> 1, day |-> 9],
             [year |-> 2025, month |-> 11, day |-> 30]} ]

\* An exception: its message and, for an ApiException, its statusCode.
Exceptions ==
  [ message : {Null, Str(""), Str("Network error")},
    statusCode : {Null, Num(-3), Num(-100)} ]

\* The response of the success listener.
SuccessResponse(result) ==
  PlayAgeRangeStatusResult(
    IF result.installId # Null /\ result.installId # Str("")
      THEN result.installId ELSE Null,
    IF result.userStatus # Null THEN result.userStatus ELSE Str(""),
    result.ageLower,
    result.ageUpper,
    IF result.mostRecentApprovalDate # Null
      THEN Str(FormatDate(result.mostRecentApprovalDate)) ELSE Null,
    Null, Null)

\* The response of the failure listener.
FailureResponse(e) ==
  PlayAgeRangeStatusResult(Null, Null, Null, Null, Null,
    IF e.message # Null THEN e.message ELSE Str("Unknown error occurred"),
    e.statusCode)

\* The response of the catch block around the initialization.
InitErrorResponse(e) ==
  PlayAgeRangeStatusResult(Null, Null, Null, Null, Null,
    Str("AGE_SIGNALS_INIT_ERROR: " \o Template(e.message)), Null)

\* The dictionary the Objective-C stub resolves with.
StubResponse ==
  [t |-> "object", installId |-> Null, userStatus |-> Null,
   error |-> Str("This method is only available on Android. "
                 \o "Use requestIOSDeclaredAgeRange on iOS.")]

NativeInit ==
  /\ PlatformOS \in {"android", "ios"}
  /\ HookUnused
  /\ helperCall = NoCall
  /\ nativeCall = NoCall
  /\ AgeGateServiceConstructed

\* Kotlin getAndroidPlayAgeRangeStatus, up to its return: the manager is
\* created and the listeners are registered, or the creation throws.
KotlinGetAndroidPlayAgeRangeStatus ==
  /\ PlatformOS = "android"
  /\ nativeCall = NoCall
  /\ \/ nativeCall' = NativeCall("getAndroidPlayAgeRangeStatus", "task",
                                 "none", NoAnswer, <<>>)
     \/ \E e \in Exceptions :
          nativeCall' = NativeCall("getAndroidPlayAgeRangeStatus", "done",
                          "init", e, <<Resolved(InitErrorResponse(e))>>)
  /\ UNCHANGED <<hookAll, helperCall, gateVars>>

AwaitsTask(fn) == nativeCall # NoCall /\ nativeCall.fn = fn /\ nativeCall.pc = "task"

OnSuccessListener ==
  /\ AwaitsTask("getAndroidPlayAgeRangeStatus")
  /\ \E result \in AgeSignalsResults :
       nativeCall' = NativeCall(nativeCall.fn, "done", "success", result,
         Append(nativeCall.settlements, Resolved(SuccessResponse(result))))
  /\ UNCHANGED <<hookAll, helperCall, gateVars>>

\* A bug the failure listener could have: it rejects the promise.
OnFailureListener_Rejects ==
  /\ AwaitsTask("getAndroidPlayAgeRangeStatus")
  /\ \E e \in Exceptions :
       nativeCall' = NativeCall(nativeCall.fn, "done", "failure", e,
         Append(nativeCall.settlements,
                RejectedWith("AGE_SIGNALS_ERROR", Template(e.message))))
  /\ UNCHANGED <<hookAll, helperCall, gateVars>>

OnFailureListener ==
  /\ AwaitsTask("getAndroidPlayAgeRangeStatus")
  /\ \E e \in Exceptions :
       nativeCall' = NativeCall(nativeCall.fn, "done", "failure", e,
         Append(nativeCall.settlements, Resolved(FailureResponse(e))))
  /\ UNCHANGED <<hookAll, helperCall, gateVars>>

\* Objective-C getAndroidPlayAgeRangeStatus: resolve(result).
StubGetAndroidPlayAgeRangeStatus ==
  /\ PlatformOS = "ios"
  /\ nativeCall = NoCall
  /\ nativeCall' = NativeCall("getAndroidPlayAgeRangeStatus", "done", "stub",
                              NoAnswer, <<Resolved(StubResponse)>>)
  /\ UNCHANGED <<hookAll, helperCall, gateVars>>

\* The devices: UIDevice.current.systemVersion, whether it passes
\* #available(iOS 26.0, *) and whether the build could import the framework.
Devices ==
  { [systemVersion |-> "18.5", available |-> FALSE, canImport |-> TRUE],
    [systemVersion |-> "26.0", available |-> TRUE, canImport |-> FALSE],
    [systemVersion |-> "26.1", available |-> TRUE, canImport |-> TRUE] }

\* What AgeRangeService.requestAgeRange can return: .sharing(declaration),
\* with the declaration's bounds, its optional ageRangeDeclaration (an enum
\* case) and the raw value of its activeParentalControls, or
\* .declinedSharing.
AgeRangeResponses ==
  [ kind : {"sharing"},
    lowerBound : {Null, Num(13), Num(18)},
    upperBound : {Null, Num(12), Num(17)},
    ageRangeDeclaration : {Null, [case |-> "selfDeclared"],
                                 [case |-> "guardianDeclared"]},
    activeParentalControls : {0, 1, 3} ]
  \cup { [kind |-> "declinedSharing"] }

\* String(describing:) of an enum case is the name of the case.
StringDescribing(c) == Str(c.case)

\* The dictionary the Swift adapter builds from a response (lines 84-124).
SwiftResult(response) ==
  IF response.kind = "sharing"
    THEN DeclaredAgeRangeResult(
           IF response.ageRangeDeclaration # Null
             THEN StringDescribing(response.ageRangeDeclaration)
             ELSE Str("unknown"),
           Str(NatToString(response.activeParentalControls)),
           response.lowerBound,
           response.upperBound,
           Null)
    ELSE DeclaredAgeRangeResult(Str("declined"), Null, Null, Null, Null)

\* Swift requestIOSDeclaredAgeRange, up to its return: the version and
\* framework checks reject at once, otherwise the Task is scheduled.
SwiftRequestIOSDeclaredAgeRange ==
  /\ PlatformOS = "ios"
  /\ nativeCall = NoCall
  /\ \E d \in Devices :
       nativeCall' =
         IF ~d.available
           THEN NativeCall("requestIOSDeclaredAgeRange", "done", "version", d,
                  <<RejectedWith("IOS_VERSION_ERROR",
                      "Declared Age Range API requires iOS 26.0 or later. "
                      \o "Current version: " \o d.systemVersion \o ". Consider "
                      \o "using a fallback age verification method.")>>)
         ELSE IF ~d.canImport
           THEN NativeCall("requestIOSDeclaredAgeRange", "done", "sdk", d,
                  <<RejectedWith("SDK_NOT_AVAILABLE",
                      "Declared Age Range API requires iOS 26.0+ SDK. Please "
                      \o "build with Xcode 26 or later with iOS 26 SDK. "
                      \o "Current iOS version: " \o d.systemVersion)>>)
         ELSE NativeCall("requestIOSDeclaredAgeRange", "scheduled", "none",
                         NoAnswer, <<>>)
  /\ UNCHANGED <<hookAll, helperCall, gateVars>>

\* The Task starts: without a top view controller it rejects and returns,
\* with one it awaits AgeRangeService.shared.requestAgeRange.
TaskBegins ==
  /\ nativeCall # NoCall
  /\ nativeCall.pc = "scheduled"
  /\ \E viewController \in BOOLEAN :
       nativeCall' =
         IF viewController
           THEN NativeCall(nativeCall.fn, "task", "none", NoAnswer, <<>>)
           ELSE NativeCall(nativeCall.fn, "done", "viewController", NoAnswer,
                  <<RejectedWith("VIEW_CONTROLLER_ERROR",
                      "Could not find top view controller to present UI")>>)
  /\ UNCHANGED <<hookAll, helperCall, gateVars>>

\* requestAgeRange returns and the Task resolves the promise.
AgeRangeServiceResponds ==
  /\ AwaitsTask("requestIOSDeclaredAgeRange")
  /\ \E response \in AgeRangeResponses :
       nativeCall' = NativeCall(nativeCall.fn, "done", "response", response,
         Append(nativeCall.settlements, Resolved(SwiftResult(response))))
  /\ UNCHANGED <<hookAll, helperCall, gateVars>>

\* requestAgeRange throws and the catch block rejects the promise.
AgeRangeServiceThrows ==
  /\ AwaitsTask("requestIOSDeclaredAgeRange")
  /\ \E localizedDescription \in {"The operation was cancelled."} :
       nativeCall' = NativeCall(nativeCall.fn, "done", "catch", NoAnswer,
         Append(nativeCall.settlements,
                RejectedWith("AGE_RANGE_ERROR",
                  "Failed to request age range: " \o localizedDescription)))
  /\ UNCHANGED <<hookAll, helperCall, gateVars>>

NativeNext ==
  \/ KotlinGetAndroidPlayAgeRangeStatus
  \/ OnSuccessListener
  \/ OnFailureListener
  \/ StubGetAndroidPlayAgeRangeStatus
  \/ SwiftRequestIOSDeclaredAgeRange
  \/ TaskBegins
  \/ AgeRangeServiceResponds
  \/ AgeRangeServiceThrows

NativeSpec == NativeInit /\ [][NativeNext]_vars

\* The one value a finished native call resolved with.
ResolvedValue == nativeCall.settlements[1].value

(* C17.  getAndroidPlayAgeRangeStatus never rejects.  On android the       *)
(* promise is settled once the call is done and not before, by exactly one *)
(* resolve, on the success, the failure and the initialization path; on    *)
(* the failure and the initialization path the resolved object has a       *)
(* non-null error and null userStatus, installId, ageLower, ageUpper and   *)
(* mostRecentApprovalDate.  On ios the stub resolves once with a non-null  *)
(* error and null installId and userStatus.                                *)
C17_AndroidStatusNeverRejects ==
  (nativeCall # NoCall /\ nativeCall.fn = "getAndroidPlayAgeRangeStatus") =>
    /\ \A k \in 1..Len(nativeCall.settlements) :
         nativeCall.settlements[k].kind = "resolve"
    /\ Len(nativeCall.settlements) = IF nativeCall.pc = "done" THEN 1 ELSE 0
    /\ nativeCall.pc = "done" =>
         nativeCall.path \in {"success", "failure", "init", "stub"}
    /\ nativeCall.path \in {"failure", "init"} =>
         /\ ResolvedValue.error # Null
         /\ ResolvedValue.error.t = "string"
         /\ ResolvedValue.userStatus = Null
         /\ ResolvedValue.installId = Null
         /\ ResolvedValue.ageLower = Null
         /\ ResolvedValue.ageUpper = Null
         /\ ResolvedValue.mostRecentApprovalDate = Null
    /\ nativeCall.path = "stub" =>
         /\ ResolvedValue.error # Null
         /\ ResolvedValue.installId = Null
         /\ ResolvedValue.userStatus = Null

\* The failure listener ran for an exception without a message.
C17_Witness ==
  /\ nativeCall # NoCall
  /\ nativeCall.fn = "getAndroidPlayAgeRangeStatus"
  /\ nativeCall.path = "failure"
  /\ nativeCall.answer.message = Null
  /\ nativeCall.settlements = <<Resolved(FailureResponse(nativeCall.answer))>>
  /\ ResolvedValue.error = Str("Unknown error occurred")

(* C18.  Every object the Swift requestIOSDeclaredAgeRange resolves with   *)
(* has status 'sharing' or 'declined' and non-null bounds only beside      *)
(* 'sharing': a .sharing response is resolved with status 'sharing', a     *)
(* .declinedSharing response with status 'declined' and null bounds.       *)
(* The code does not do this: for a .sharing response status is the name   *)
(* of the declaration's ageRangeDeclaration case, or 'unknown'.            *)
C18_SwiftStatus ==
  (/\ nativeCall # NoCall
   /\ nativeCall.fn = "requestIOSDeclaredAgeRange"
   /\ nativeCall.path = "response") =>
    /\ ResolvedValue.status \in {Str("sharing"), Str("declined")}
    /\ (ResolvedValue.lowerBound # Null \/ ResolvedValue.upperBound # Null)
         => ResolvedValue.status = Str("sharing")
    /\ nativeCall.answer.kind = "sharing" =>
         ResolvedValue.status = Str("sharing")
    /\ nativeCall.answer.kind = "declinedSharing" =>
         /\ ResolvedValue.status = Str("declined")
         /\ ResolvedValue.lowerBound = Null
         /\ ResolvedValue.upperBound = Null

---------------------------------------------------------------------------
(* AgeGateService of the implementation guide: a cache of the age status   *)
(* in front of getAndroidPlayAgeRangeStatus.  One action is one            *)
(* synchronous run: getAgeStatus up to its await or return, the            *)
(* continuation of getAndroidAgeStatus once the vendor promise settled,    *)
(* clearCache, and the clock moving on.                                    *)

\* How many times getAgeStatus is called in one behaviour, and for how long
\* the clock is followed, in multiples of CACHE_DURATION.
MaxGateCalls == 2
MaxElapsed == 1

\* The instants at which something happens: Date.now() at construction and
\* each multiple of CACHE_DURATION after it, and a millisecond after each.
Instants ==
  { ConstructionTime + m * CACHE_DURATION + e :
      m \in 0..MaxElapsed, e \in {0, 1} }

\* What the vendor promise of an AgeGateService call settles with.
GateOutcomes ==
  { Resolved(PlayAgeRangeStatusResult(Null, Str(us), Null, Null, Null, Null,
                                      Null)) :
      us \in {"OVER_AGE", "UNDER_AGE", "VERIFIED"} }
  \cup { Resolved(PlayAgeRangeStatusResult(Null, Null, Null, Null, Null,
                                           Str("Test error"), Null)),
         Resolved(PlayAgeRangeStatusResult(Null, Str("OVER_AGE"), Null, Null,
                                           Null, Str("Test error"), Null)),
         Rejected(ErrorObj("Network error")) }

\* One getAgeStatus invocation: its argument, whether it awaits the vendor,
\* whether it made a vendor call, how that call settled, the status it
\* returned and the time at which it stored that status in the cache
\* (null when it stored nothing).
GateCall(forceRefresh, phase, vendor, outcome, returned, stored) ==
  [forceRefresh |-> forceRefresh, phase |-> phase, vendor |-> vendor,
   outcome |-> outcome, returned |-> returned, stored |-> stored]

\* A bug isCacheValid could have: an entry of exactly CACHE_DURATION counts.
isCacheValid_Inclusive ==
  IF ~Truthy(cachedStatus) THEN FALSE
  ELSE now - cacheTimestamp <= CACHE_DURATION

\* A bug isCacheValid could have: only a definite status counts as cached.
isCacheValid_DefiniteOnly ==
  IF cachedStatus \notin {Str("ADULT"), Str("CHILD")} THEN FALSE
  ELSE now - cacheTimestamp < CACHE_DURATION

isCacheValid ==
  IF ~Truthy(cachedStatus) THEN FALSE
  ELSE LET age == now - cacheTimestamp IN age < CACHE_DURATION

\* A bug getAndroidAgeStatus could have: result.error is not looked at.
getAndroidAgeStatus_IgnoresError(outcome) ==
  IF outcome.kind = "reject" THEN Str("UNKNOWN")
  ELSE IF outcome.value = Null THEN Str("UNKNOWN")
  ELSE CASE outcome.value.userStatus = Str("OVER_AGE") -> Str("ADULT")
         [] outcome.value.userStatus = Str("UNDER_AGE") -> Str("CHILD")
         [] OTHER -> Str("UNKNOWN")

\* The status getAndroidAgeStatus returns for a settled vendor promise: a
\* rejection, and the TypeError of reading `error` of null, end in catch.
getAndroidAgeStatus(outcome) ==
  IF outcome.kind = "reject" THEN Str("UNKNOWN")
  ELSE IF outcome.value = Null THEN Str("UNKNOWN")
  ELSE IF Truthy(outcome.value.error) THEN Str("UNKNOWN")
  ELSE CASE outcome.value.userStatus = Str("OVER_AGE") -> Str("ADULT")
         [] outcome.value.userStatus = Str("UNDER_AGE") -> Str("CHILD")
         [] OTHER -> Str("UNKNOWN")

GateInit ==
  /\ PlatformOS \in Platforms
  /\ HookUnused
  /\ helperCall = NoCall
  /\ nativeCall = NoCall
  /\ AgeGateServiceConstructed

\* getAgeStatus(forceRefresh), up to its return or its await.
getAgeStatus ==
  /\ Len(gateCalls) < MaxGateCalls
  /\ \E forceRefresh \in BOOLEAN :
       gateCalls' = Append(gateCalls,
         IF ~forceRefresh /\ isCacheValid
           THEN GateCall(forceRefresh, "returned", FALSE, NoOutcome,
                         cachedStatus, Null)
         ELSE IF PlatformOS = "android"
           THEN GateCall(forceRefresh, "awaiting", TRUE, NoOutcome, Null,
                         Null)
           ELSE GateCall(forceRefresh, "returned", FALSE, NoOutcome,
                         Str("UNKNOWN"), Null))
  /\ UNCHANGED <<hookAll, helperCall, nativeCall, cachedStatus,
                 cacheTimestamp, now, storedBy>>

\* The vendor promise of call i settles: getAndroidAgeStatus resumes and
\* cacheAndReturn stores the status with the current time.
AgeSignalsSettles ==
  \E i \in 1..Len(gateCalls) : \E outcome \in GateOutcomes :
    /\ gateCalls[i].phase = "awaiting"
    /\ cachedStatus' = getAndroidAgeStatus(outcome)
    /\ cacheTimestamp' = now
    /\ storedBy' = i
    /\ gateCalls' = [gateCalls EXCEPT ![i] =
         GateCall(gateCalls[i].forceRefresh, "returned", TRUE, outcome,
                  getAndroidAgeStatus(outcome), now)]
    /\ UNCHANGED <<hookAll, helperCall, nativeCall, now>>

clearCache ==
  /\ cachedStatus' = Null
  /\ cacheTimestamp' = 0
  /\ storedBy' = 0
  /\ UNCHANGED <<hookAll, helperCall, nativeCall, now, gateCalls>>

\* Time passes.
ClockAdvances ==
  /\ \E t \in Instants : t > now /\ now' = t
  /\ UNCHANGED <<hookAll, helperCall, nativeCall, cachedStatus,
                 cacheTimestamp, gateCalls, storedBy>>

GateNext == getAgeStatus \/ AgeSignalsSettles \/ clearCache \/ ClockAdvances

GateSpec == GateInit /\ [][GateNext]_vars

---------------------------------------------------------------------------
(* Notions the AgeGateService properties are stated with.                  *)

\* The step is a call of getAgeStatus, and the call it adds.
GetAgeStatusCalled == Len(gateCalls') = Len(gateCalls) + 1
NewGateCall == gateCalls'[Len(gateCalls')]

\* The age of the cache entry, counted from the moment the vendor result
\* of call storedBy was stored.
EntryAge == now - gateCalls[storedBy].stored

(* C19.  Once a getAgeStatus call has stored its vendor result (and the    *)
(* cache was not cleared since), a getAgeStatus(false) made less than      *)
(* CACHE_DURATION after that moment returns at once with the stored status *)
(* - ADULT, CHILD or UNKNOWN alike - and makes no vendor call.             *)
C19_CachedWithinDuration ==
  [][ (/\ GetAgeStatusCalled
       /\ ~NewGateCall.forceRefresh
       /\ storedBy # 0
       /\ EntryAge < CACHE_DURATION) =>
        /\ NewGateCall.phase = "returned"
        /\ ~NewGateCall.vendor
        /\ NewGateCall.returned = gateCalls[storedBy].returned
        /\ NewGateCall.returned \in {Str("ADULT"), Str("CHILD"), Str("UNKNOWN")}
    ]_vars

\* Two sequential calls, one vendor call: the second call, made one
\* millisecond short of CACHE_DURATION later, returned the cached UNKNOWN.
C19_Witness ==
  /\ PlatformOS = "android"
  /\ Len(gateCalls) = 2
  /\ storedBy = 1
  /\ gateCalls[1].vendor /\ gateCalls[1].returned = Str("UNKNOWN")
  /\ now - gateCalls[1].stored = CACHE_DURATION - 1
  /\ ~gateCalls[2].forceRefresh /\ ~gateCalls[2].vendor
  /\ gateCalls[2].phase = "returned"
  /\ gateCalls[2].returned = Str("UNKNOWN")

(* C20.  On android getAgeStatus(true) always makes a vendor call, and     *)
(* getAgeStatus(false) makes one exactly when the cache holds nothing      *)
(* (nothing was stored since construction or since the last clearCache)    *)
(* or the entry, counted from the moment its vendor result was stored, is  *)
(* CACHE_DURATION old or older.                                            *)
C20_VendorCallExactlyWhenStale ==
  [][ (GetAgeStatusCalled /\ PlatformOS = "android") =>
        IF NewGateCall.forceRefresh
          THEN NewGateCall.vendor /\ NewGateCall.phase = "awaiting"
          ELSE NewGateCall.vendor <=>
                 (storedBy = 0 \/ EntryAge >= CACHE_DURATION)
    ]_vars

\* getAgeStatus(false) made a vendor call for an entry stored exactly
\* CACHE_DURATION before, the first call having started a millisecond
\* earlier still.
C20_Witness ==
  /\ PlatformOS = "android"
  /\ Len(gateCalls) = 2
  /\ storedBy = 1
  /\ gateCalls[1].stored = ConstructionTime + 1
  /\ now - gateCalls[1].stored = CACHE_DURATION
  /\ ~gateCalls[2].forceRefresh
  /\ gateCalls[2].vendor
  /\ gateCalls[2].phase = "awaiting"

(* C21.  A getAgeStatus call that asked the vendor returns ADULT when the   *)
(* vendor resolved without error and userStatus OVER_AGE, CHILD when       *)
(* without error and UNDER_AGE, and UNKNOWN for every other userStatus,    *)
(* for every result with error set and when the vendor promise rejected;   *)
(* every call returns one of the three statuses, and on a platform other   *)
(* than android every call returns UNKNOWN at once, without a vendor call. *)
C21_AgeStatusMapping ==
  \A i \in 1..Len(gateCalls) :
    LET c == gateCalls[i]
        ok(us) == /\ c.outcome.kind = "resolve"
                  /\ c.outcome.value.error = Null
                  /\ c.outcome.value.userStatus = Str(us)
    IN /\ (c.phase = "returned" /\ c.vendor) =>
            c.returned = IF ok("OVER_AGE") THEN Str("ADULT")
                         ELSE IF ok("UNDER_AGE") THEN Str("CHILD")
                         ELSE Str("UNKNOWN")
       /\ c.phase = "returned" =>
            c.returned \in {Str("ADULT"), Str("CHILD"), Str("UNKNOWN")}
       /\ PlatformOS # "android" =>
            c.phase = "returned" /\ ~c.vendor /\ c.returned = Str("UNKNOWN")

\* A vendor result with userStatus OVER_AGE and an error came back as UNKNOWN.
C21_Witness ==
  \E i \in 1..Len(gateCalls) :
    /\ gateCalls[i].phase = "returned"
    /\ gateCalls[i].vendor
    /\ gateCalls[i].outcome.kind = "resolve"
    /\ gateCalls[i].outcome.value.userStatus = Str("OVER_AGE")
    /\ gateCalls[i].outcome.value.error # Null
    /\ gateCalls[i].returned = Str("UNKNOWN")

(* C27.  AgeGateService never has two vendor calls outstanding at once: a  *)
(* getAgeStatus(false) made while an earlier call still awaits the vendor  *)
(* starts no vendor call of its own.                                       *)
(* The code does not do this: getAgeStatus looks at the cache only, which  *)
(* is still empty while the first call awaits, so every caller on a cold   *)
(* cache starts its own vendor call.                                       *)
C27_OneVendorCallOutstanding ==
  \A i, j \in 1..Len(gateCalls) :
    (i < j /\ gateCalls[i].phase = "awaiting" /\ ~gateCalls[j].forceRefresh)
      => gateCalls[j].phase # "awaiting"

---------------------------------------------------------------------------
\* The fields a fetch does not touch before its vendor call settles.
ResultFields(h) ==
  <<h.status, h.ageLower, h.ageUpper, h.mostRecentApprovalDate,
    h.parentControls, h.declaration, h.installId, h.rawResponse>>

(* C22.  Starting a fetch (by the effect or by refresh()) sets error and   *)
(* errorCode to null and, on android and ios, loading to true with the     *)
(* vendor call outstanding; status, ageLower, ageUpper,                    *)
(* mostRecentApprovalDate, parentControls, declaration, installId and      *)
(* rawResponse keep their values in that step and in every later step      *)
(* that is not the settling of a vendor call.                              *)
C22_StartChangesOnlyLoadingAndError ==
  [][ /\ Len(fetches') = Len(fetches) + 1 =>
           /\ error' = Null
           /\ errorCode' = Null
           /\ fetches'[Len(fetches')].platform \in {"android", "ios"} =>
                loading' = TRUE /\ fetches'[Len(fetches')].phase = "pending"
      /\ (\A i \in 1..Len(fetches) : ~Settles(i)) =>
           ResultFields(HookAfter) = ResultFields(Hook)
    ]_vars

\* refresh() was called on an instance holding a status and an age range:
\* the new vendor call is outstanding and the held fields are still there.
C22_Witness ==
  /\ Len(fetches) = 2
  /\ fetches[1].phase = "done"
  /\ fetches[2].phase = "pending"
  /\ loading
  /\ error = Null
  /\ status = Str("SUPERVISED")
  /\ ageLower = Num(13)
  /\ rawResponse # Null

---------------------------------------------------------------------------
(* Liveness.  The hook does nothing to make a vendor promise settle; the   *)
(* vendor does.  FairSpec assumes what C23 assumes: a vendor call that is  *)
(* outstanding is settled, by a resolve or by a reject.                    *)
FairSpec == Spec /\ WF_vars(VendorResolves \/ VendorRejects)

(* C23.  Every fetch whose vendor call settles completes: an outstanding   *)
(* fetch is eventually done and the instance is eventually idle again (no  *)
(* vendor call outstanding, loading false); the settling step sets loading *)
(* to false and replaces the held result in full, leaving exactly what a   *)
(* fresh instance would hold after the same vendor outcome.                *)
(* The fetch does complete, but the code does not replace the held result  *)
(* in full: the android error branch keeps parentControls and declaration  *)
(* (C11), and the success branches keep the error of an overlapping fetch  *)
(* (C1).                                                                   *)
C23_SettledFetchCompletes ==
  /\ \A i \in 1..MaxFetches : (i \in Pending) ~> (i \in Settled)
  /\ (Pending # {}) ~> (Pending = {} /\ ~loading)
  /\ [][\A i \in 1..Len(fetches) :
          Settles(i) =>
            /\ loading' = FALSE
            /\ HookAfter = Normalized(fetches'[i])]_vars

(* C25.  After a completed fetch rawResponse belongs to that fetch: the    *)
(* step in which a vendor call settles leaves rawResponse equal to the     *)
(* value the call resolved with, or null when the call was rejected.       *)
(* The code does not do this: neither the start of a fetch nor the catch   *)
(* block sets rawResponse, so after a rejected vendor call it is still the *)
(* raw object of the fetch before.                                         *)
C25_RawResponseOfSameFetch ==
  [][\A i \in 1..Len(fetches) :
       Settles(i) =>
         rawResponse' = IF fetches'[i].outcome.kind = "resolve"
                          THEN fetches'[i].outcome.value
                          ELSE Null]_vars

\* The vendor call of fetch f failed: it was rejected, or (android) it
\* resolved with an error text.
VendorFailed(f) ==
  \/ f.outcome.kind = "reject"
  \/ f.platform = "android" /\ Truthy(f.outcome.value.error)

(* C26.  With both callbacks supplied, every completed android or ios      *)
(* fetch invoked exactly one of them, exactly once: onSuccess after a      *)
(* vendor result without error, onError after an in-band error or a        *)
(* rejection - whether or not the invoked callback throws.                 *)
(* The code does not do this: the callbacks run inside the try block, so   *)
(* a throwing onSuccess lands in catch, which stores the thrown message in *)
(* error and calls onError as well, and a throwing onError of the android  *)
(* error branch is called a second time by catch.                          *)
C26_ExactlyOneCallbackOnce ==
  \A i \in Settled \cap VendorFetches :
    LET f == fetches[i] IN
    (/\ onSuccess # "absent"
     /\ onError # "absent"
     /\ f.outcome.kind = "resolve" => ResolvedObject(f)) =>
      /\ Len(f.onSuccessArgs) = IF VendorFailed(f) THEN 0 ELSE 1
      /\ Len(f.onErrorArgs) = IF VendorFailed(f) THEN 1 ELSE 0

---------------------------------------------------------------------------
\* The age-signals helpers.

\* The codes the caller is told to retry.
RetryableCodes == { Num(-n) : n \in 1..8 }

\* C24: shouldRetryError(code) is true exactly for the codes -1 to -8, and
\* false for null, 0, -9, -100 and every other number.
C24_ShouldRetryError ==
  helperCall.fn = "shouldRetryError" =>
    /\ helperCall.returned <=> helperCall.errorCode \in RetryableCodes
    /\ helperCall.errorCode \in {Null, Num(0), Num(-9), Num(-100)}
         => ~helperCall.returned

\* shouldRetryError returned true for CLIENT_TRANSIENT_ERROR.
C24_Witness ==
  /\ helperCall.fn = "shouldRetryError"
  /\ helperCall.errorCode = Num(-8)
  /\ helperCall.returned

\* C29: for every ageLower and every ageUpper (a number or null) with
\* ageLower <= ageUpper, getAgeCategory returns 'adult' only when
\* meetsMinimumAge(ageLower, 18) is true.
C29_AdultCategoryMeetsMinimumAge ==
  (/\ helperCall.fn = "getAgeCategory"
   /\ helperCall.ageLower # Null
   /\ helperCall.ageUpper # Null => helperCall.ageLower.n <= helperCall.ageUpper.n
   /\ helperCall.returned = Str("adult"))
    => meetsMinimumAge(helperCall.ageLower, 18)

\* The user statuses Play Age Signals reports, and none.
AndroidUserStatuses ==
  { Str("VERIFIED"), Str("SUPERVISED"), Str("SUPERVISED_APPROVAL_PENDING"),
    Str("SUPERVISED_APPROVAL_DENIED"), Str("UNKNOWN"), Str(""), Null }

\* C30: for every Android user status, the empty one and null included,
\* exactly one of isVerifiedAdult, isSupervisedUser and isUnknownAge is true.
C30_ClassifiersPartition ==
  (helperCall.fn = "classifiers"
     /\ helperCall.userStatus \in AndroidUserStatuses) =>
    Cardinality({ c \in {"isVerifiedAdult", "isSupervisedUser", "isUnknownAge"} :
                    helperCall[c] }) = 1

\* The three classifiers were applied to the empty status, and only
\* isUnknownAge accepted it.
C30_Witness ==
  /\ helperCall.fn = "classifiers"
  /\ helperCall.userStatus = Str("")
  /\ helperCall.isUnknownAge
  /\ ~helperCall.isVerifiedAdult
  /\ ~helperCall.isSupervisedUser

---------------------------------------------------------------------------
\* The Swift adapter and the hook together.

\* What useAgeRange holds on ios after a fetch whose vendor promise was
\* settled by the settled requestIOSDeclaredAgeRange call.
HeldAfterIOSFetch ==
  UnifiedAgeRangeResult("ios",
    Continuation(InitialHook, "ios", nativeCall.settlements[1]).h)

\* C28: on ios, when the age range service reports a shared age range whose
\* lowerBound is at least 18, the result useAgeRange holds after the fetch
\* satisfies isUserAdult(result, 18).
C28_IOSSharedAdultIsAdult ==
  (/\ nativeCall # NoCall
   /\ nativeCall.fn = "requestIOSDeclaredAgeRange"
   /\ nativeCall.path = "response"
   /\ nativeCall.answer.kind = "sharing"
   /\ nativeCall.answer.lowerBound # Null
   /\ nativeCall.answer.lowerBound.n >= 18) =>
    isUserAdult(HeldAfterIOSFetch, 18)


===========================================================================
